---- MODULE Spec2Model ----
(***************************************************************************)
(* Model of the tic-tac-toe game of timlindenasell/unbeatable-tictactoe:   *)
(* the Board / Game classes of tic_tac_toe.py, the minimax search of       *)
(* game_ai.py and the mouse handlers of events.py.                         *)
(*                                                                         *)
(* A grid is a function from the index pairs <<row, col>> (0..2 each) to   *)
(* the cell values 0 (empty), 1 (X), 2 (O), as the (3,3) numpy array is.   *)
(***************************************************************************)
EXTENDS Integers, Sequences, FiniteSets, TLC

VARIABLES
  spaces,    \* Board._spaces
  winner,    \* Board._winner
  turn,      \* Board.turn
  player,    \* Game.player   (the human's mark)
  opponent,  \* Game.opponent (the automated player's mark)
  button,    \* Game.buttons['rematch_button']: "absent", "undrawn", "released", "pressed" or "unlisted"
  last,      \* the operation run last and the path it took through its code
  ret        \* the minimax call made by the operation run last, if any

vars == <<spaces, winner, turn, player, opponent, button, last, ret>>

(***************************************************************************)
(* Constants of tic_tac_toe.py and game_ai.py                              *)
(***************************************************************************)
EMPTY == 0
STALE == 0
WIN == 1
PLAYER_X == 1
PLAYER_O == 2

\* Python's None, as a value no cell, player or outcome takes.
None == 0 - 1

\* float('-inf'), game_ai.py line 42: below every score in {-1, 0, 1}.
NEG_INF == 0 - 2

\* The sentinel `move = -1` of game_ai.py line 41, as a tuple no index equals.
NO_MOVE == <<>>

\* The index pairs of a (3,3) array.
Idx == (0 .. 2) \X (0 .. 2)

\* All (3,3) arrays over the three cell values.
Grids == [Idx -> {EMPTY, PLAYER_X, PLAYER_O}]

\* np.zeros(shape=(3, 3), dtype=int)
zeros == [i \in Idx |-> 0]

\* np.count_nonzero(value == v)
count_nonzero(g, v) == Cardinality({i \in Idx : g[i] = v})

(***************************************************************************)
(* Board: the rows and the two win checks                                  *)
(***************************************************************************)

\* all(row == v) for a row of three cells
all_eq(row, v) == \A k \in 1 .. 3 : row[k] = v

\* get_rows without the np.flip of line 97: the diagonal is listed twice and
\* the other diagonal not at all.
get_rows_no_flip(g) ==
  << << g[<<0, 0>>], g[<<0, 1>>], g[<<0, 2>>] >>,
     << g[<<1, 0>>], g[<<1, 1>>], g[<<1, 2>>] >>,
     << g[<<2, 0>>], g[<<2, 1>>], g[<<2, 2>>] >>,
     << g[<<0, 0>>], g[<<1, 0>>], g[<<2, 0>>] >>,
     << g[<<0, 1>>], g[<<1, 1>>], g[<<2, 1>>] >>,
     << g[<<0, 2>>], g[<<1, 2>>], g[<<2, 2>>] >>,
     << g[<<0, 0>>], g[<<1, 1>>], g[<<2, 2>>] >>,
     << g[<<0, 0>>], g[<<1, 1>>], g[<<2, 2>>] >> >>

\* Board.get_rows: rows, columns (rows of the transpose), diagonal, and the
\* diagonal of the array flipped along axis 1.
get_rows(g) ==
  << << g[<<0, 0>>], g[<<0, 1>>], g[<<0, 2>>] >>,
     << g[<<1, 0>>], g[<<1, 1>>], g[<<1, 2>>] >>,
     << g[<<2, 0>>], g[<<2, 1>>], g[<<2, 2>>] >>,
     << g[<<0, 0>>], g[<<1, 0>>], g[<<2, 0>>] >>,
     << g[<<0, 1>>], g[<<1, 1>>], g[<<2, 1>>] >>,
     << g[<<0, 2>>], g[<<1, 2>>], g[<<2, 2>>] >>,
     << g[<<0, 0>>], g[<<1, 1>>], g[<<2, 2>>] >>,
     << g[<<0, 2>>], g[<<1, 1>>], g[<<2, 0>>] >> >>

\* Board.get_rows_grid: the static twin of get_rows.
get_rows_grid(board_grid) ==
  << << board_grid[<<0, 0>>], board_grid[<<0, 1>>], board_grid[<<0, 2>>] >>,
     << board_grid[<<1, 0>>], board_grid[<<1, 1>>], board_grid[<<1, 2>>] >>,
     << board_grid[<<2, 0>>], board_grid[<<2, 1>>], board_grid[<<2, 2>>] >>,
     << board_grid[<<0, 0>>], board_grid[<<1, 0>>], board_grid[<<2, 0>>] >>,
     << board_grid[<<0, 1>>], board_grid[<<1, 1>>], board_grid[<<2, 1>>] >>,
     << board_grid[<<0, 2>>], board_grid[<<1, 2>>], board_grid[<<2, 2>>] >>,
     << board_grid[<<0, 0>>], board_grid[<<1, 1>>], board_grid[<<2, 2>>] >>,
     << board_grid[<<0, 2>>], board_grid[<<1, 1>>], board_grid[<<2, 0>>] >> >>

\* The `for row in rows` loop shared by both checks: the first row, in list
\* order, that is all X or all O decides; X is tested before O on each row.
RECURSIVE scan_rows(_, _)
scan_rows(rows, k) ==
  IF k > Len(rows) THEN None
  ELSE IF all_eq(rows[k], PLAYER_X) THEN PLAYER_X
  ELSE IF all_eq(rows[k], PLAYER_O) THEN PLAYER_O
  ELSE scan_rows(rows, k + 1)

\* ndarray.all(): every cell is non-zero.
array_all(g) == \A i \in Idx : g[i] # 0

\* check_win without the test of a full board (lines 119-121 left out).
check_win_no_stale(g, w) ==
  IF w # None THEN w
  ELSE LET found == scan_rows(get_rows(g), 1)
       IN IF found # None THEN found ELSE w

\* check_win dropping a stored outcome on lines 106-107 instead of keeping
\* it.
check_win_forgets(g, w) ==
  IF w # None THEN None
  ELSE LET found == scan_rows(get_rows(g), 1)
       IN IF found # None THEN found
          ELSE IF array_all(g) THEN STALE
          ELSE w

\* Board.check_win, as the value self.winner has when it returns.
check_win(g, w) ==
  IF w # None THEN w
  ELSE LET found == scan_rows(get_rows(g), 1)
       IN IF found # None THEN found
          ELSE IF array_all(g) THEN STALE
          ELSE w

\* check_win_grid with the test of a full board made before the rows are
\* looked at.
check_win_grid_full_first(board_grid) ==
  IF array_all(board_grid) THEN STALE
  ELSE scan_rows(get_rows_grid(board_grid), 1)

\* Board.check_win_grid
check_win_grid(board_grid) ==
  LET found == scan_rows(get_rows_grid(board_grid), 1)
  IN IF found # None THEN found
     ELSE IF array_all(board_grid) THEN STALE
     ELSE None

(***************************************************************************)
(* game_ai.minimax                                                         *)
(*                                                                         *)
(* The search works in place on the array it is given (`board_copy =       *)
(* board` is an alias), so every invocation yields the array as it leaves  *)
(* it together with its score.  kwargs is <<>> for the top-level call and  *)
(* [last_move |-> m] for a nested one.                                     *)
(*                                                                         *)
(* An invocation is evaluated in two parts: minimax_body is lines 28-60    *)
(* (the win test and the loop over the available moves), minimax is the    *)
(* return paths (lines 33-39 and 62-73) applied to it.  The body depends   *)
(* on the array and the player only, and a nested invocation always works  *)
(* on an array with fewer empty cells, so the bodies are tabulated by      *)
(* number of empty cells: `calls` holds the bodies for every array with    *)
(* fewer empty cells than the one at hand.                                 *)
(***************************************************************************)

other(p) == IF p = PLAYER_O THEN PLAYER_X ELSE PLAYER_O

\* list(zip(*np.where(board == EMPTY))): the empty cells in row-major order.
RECURSIVE am_from(_, _)
am_from(board, n) ==
  IF n > 8 THEN <<>>
  ELSE LET i == <<n \div 3, n % 3>>
       IN IF board[i] = EMPTY THEN <<i>> \o am_from(board, n + 1)
          ELSE am_from(board, n + 1)

am_indices(board) == am_from(board, 0)

\* Position of (array, player) in the table of bodies: the array read as a
\* base-3 numeral, row-major, then the player.
grid_code(board) ==
  board[<<0, 0>>] + 3 * (board[<<0, 1>>] + 3 * (board[<<0, 2>>]
  + 3 * (board[<<1, 0>>] + 3 * (board[<<1, 1>>] + 3 * (board[<<1, 2>>]
  + 3 * (board[<<2, 0>>] + 3 * (board[<<2, 1>>] + 3 * board[<<2, 2>>])))))))

call_key(board, p) == 2 * grid_code(board) + p

RECURSIVE digit(_, _)
digit(code, n) == IF n = 0 THEN code % 3 ELSE digit(code \div 3, n - 1)

key_grid(k) ==
  LET code == (k - 1) \div 2
  IN (<<0, 0>> :> digit(code, 0)) @@ (<<0, 1>> :> digit(code, 1))
     @@ (<<0, 2>> :> digit(code, 2)) @@ (<<1, 0>> :> digit(code, 3))
     @@ (<<1, 1>> :> digit(code, 4)) @@ (<<1, 2>> :> digit(code, 5))
     @@ (<<2, 0>> :> digit(code, 6)) @@ (<<2, 1>> :> digit(code, 7))
     @@ (<<2, 2>> :> digit(code, 8))

key_player(k) == IF k % 2 = 1 THEN PLAYER_X ELSE PLAYER_O

RECURSIVE zero_digits(_, _)
zero_digits(code, n) ==
  IF n = 0 THEN 0
  ELSE (IF code % 3 = 0 THEN 1 ELSE 0) + zero_digits(code \div 3, n - 1)

NumKeys == 2 * 19683

\* The number of empty cells of the array of every key, computed once.
key_empties_table ==
  [k \in 1 .. NumKeys |-> zero_digits((k - 1) \div 2, 9)] \o <<>>

key_empties(k) == key_empties_table[k]

\* board[kwargs['last_move']] = EMPTY
undo(board, kwargs) == [board EXCEPT ![kwargs.last_move] = EMPTY]

has_last_move(kwargs) == "last_move" \in DOMAIN kwargs

\* minimax_returns scoring a lost position like a won one (line 39 returning
\* WIN).
minimax_returns_loss_as_win(body, p, kwargs) ==
  IF body.winner = p \/ body.winner = other(p)
  THEN IF has_last_move(kwargs)
       THEN [board |-> undo(body.board, kwargs), move |-> NO_MOVE, raised |-> "none",
             score |-> WIN,
             depth |-> body.depth]
       ELSE [board |-> body.board, move |-> NO_MOVE, raised |-> "KeyError", score |-> 0,
             depth |-> body.depth]
  ELSE IF body.move = NO_MOVE
  THEN IF has_last_move(kwargs)
       THEN [board |-> undo(body.board, kwargs), move |-> NO_MOVE, raised |-> "none",
             score |-> STALE,
             depth |-> body.depth]
       ELSE [board |-> body.board, move |-> NO_MOVE, raised |-> "KeyError", score |-> 0,
             depth |-> body.depth]
  ELSE IF has_last_move(kwargs)
  THEN [board |-> undo(body.board, kwargs), move |-> NO_MOVE, raised |-> "none",
        score |-> body.score,
        depth |-> body.depth]
  ELSE [board |-> body.board, move |-> body.move, raised |-> "none",
        score |-> body.score,
        depth |-> body.depth]

\* minimax_returns without the undo on the draw path (line 63 left out).
minimax_returns_no_undo_on_draw(body, p, kwargs) ==
  IF body.winner = p \/ body.winner = other(p)
  THEN IF has_last_move(kwargs)
       THEN [board |-> undo(body.board, kwargs), move |-> NO_MOVE, raised |-> "none",
             score |-> IF body.winner = p THEN WIN ELSE 0 - WIN,
             depth |-> body.depth]
       ELSE [board |-> body.board, move |-> NO_MOVE, raised |-> "KeyError", score |-> 0,
             depth |-> body.depth]
  ELSE IF body.move = NO_MOVE
  THEN [board |-> body.board, move |-> NO_MOVE, raised |-> "none", score |-> STALE,
        depth |-> body.depth]
  ELSE IF has_last_move(kwargs)
  THEN [board |-> undo(body.board, kwargs), move |-> NO_MOVE, raised |-> "none",
        score |-> body.score,
        depth |-> body.depth]
  ELSE [board |-> body.board, move |-> body.move, raised |-> "none",
        score |-> body.score,
        depth |-> body.depth]

\* The return paths of one invocation, given its body.  raised is
\* "KeyError" when kwargs['last_move'] is looked up outside the try block in
\* a call that was made without it.
minimax_returns(body, p, kwargs) ==
  IF body.winner = p \/ body.winner = other(p)
  THEN IF has_last_move(kwargs)
       THEN [board |-> undo(body.board, kwargs), move |-> NO_MOVE, raised |-> "none",
             score |-> IF body.winner = p THEN WIN ELSE 0 - WIN,
             depth |-> body.depth]
       ELSE [board |-> body.board, move |-> NO_MOVE, raised |-> "KeyError", score |-> 0,
             depth |-> body.depth]
  ELSE IF body.move = NO_MOVE
  THEN IF has_last_move(kwargs)
       THEN [board |-> undo(body.board, kwargs), move |-> NO_MOVE, raised |-> "none",
             score |-> STALE,
             depth |-> body.depth]
       ELSE [board |-> body.board, move |-> NO_MOVE, raised |-> "KeyError", score |-> 0,
             depth |-> body.depth]
  ELSE IF has_last_move(kwargs)
  THEN [board |-> undo(body.board, kwargs), move |-> NO_MOVE, raised |-> "none",
        score |-> body.score,
        depth |-> body.depth]
  ELSE [board |-> body.board, move |-> body.move, raised |-> "none",
        score |-> body.score,
        depth |-> body.depth]

\* The larger of two depths.
deeper(a, b) == IF a > b THEN a ELSE b

\* The entry of the table for an array whose body is not tabulated yet: one
\* with no fewer empty cells than the array of the calling invocation.  The
\* recursion does not descend then, and Python ends it with RecursionError,
\* deeper than any number of empty cells.
no_body ==
  [winner |-> None, board |-> <<>>, score |-> NEG_INF, move |-> NO_MOVE,
   raised |-> "RecursionError", depth |-> 10]

\* minimax(board, player, check_win, **kwargs).  depth is the number of
\* invocations nested below this one at the deepest point.  An exception
\* raised below passes through every return path.
minimax(calls, board, p, kwargs) ==
  IF calls[call_key(board, p)].raised # "none"
  THEN [board |-> board, move |-> NO_MOVE, raised |-> calls[call_key(board, p)].raised,
        score |-> 0, depth |-> calls[call_key(board, p)].depth]
  ELSE minimax_returns(calls[call_key(board, p)], p, kwargs)

\* try_moves with the child's score taken as it is (line 56 without the
\* minus sign).
RECURSIVE try_moves_unnegated(_, _, _, _, _, _, _)
try_moves_unnegated(calls, board, p, am, score, move, depth) ==
  IF am = <<>>
  THEN [winner |-> None, board |-> board, score |-> score, move |-> move,
        raised |-> "none", depth |-> depth]
  ELSE LET move_index == Head(am)
           child == minimax(calls, [board EXCEPT ![move_index] = p], other(p),
                            [last_move |-> move_index])
           move_score == child.score
       IN IF child.raised # "none"
          THEN [winner |-> None, board |-> child.board, score |-> score, move |-> move,
                raised |-> child.raised, depth |-> deeper(depth, child.depth + 1)]
          ELSE IF move_score > score
          THEN try_moves_unnegated(calls, child.board, p, Tail(am), move_score, move_index,
                    deeper(depth, child.depth + 1))
          ELSE try_moves_unnegated(calls, child.board, p, Tail(am), score, move,
                    deeper(depth, child.depth + 1))

\* try_moves with `>=` for `>` on line 58: the last best move is kept.
RECURSIVE try_moves_last_best(_, _, _, _, _, _, _)
try_moves_last_best(calls, board, p, am, score, move, depth) ==
  IF am = <<>>
  THEN [winner |-> None, board |-> board, score |-> score, move |-> move,
        raised |-> "none", depth |-> depth]
  ELSE LET move_index == Head(am)
           child == minimax(calls, [board EXCEPT ![move_index] = p], other(p),
                            [last_move |-> move_index])
           move_score == 0 - child.score
       IN IF child.raised # "none"
          THEN [winner |-> None, board |-> child.board, score |-> score, move |-> move,
                raised |-> child.raised, depth |-> deeper(depth, child.depth + 1)]
          ELSE IF move_score >= score
          THEN try_moves_last_best(calls, child.board, p, Tail(am), move_score, move_index,
                    deeper(depth, child.depth + 1))
          ELSE try_moves_last_best(calls, child.board, p, Tail(am), score, move,
                    deeper(depth, child.depth + 1))

\* try_moves without line 54: the nested call is made on the array as it
\* is, no mark placed.
RECURSIVE try_moves_no_move(_, _, _, _, _, _, _)
try_moves_no_move(calls, board, p, am, score, move, depth) ==
  IF am = <<>>
  THEN [winner |-> None, board |-> board, score |-> score, move |-> move,
        raised |-> "none", depth |-> depth]
  ELSE LET move_index == Head(am)
           child == minimax(calls, board, other(p), [last_move |-> move_index])
           move_score == 0 - child.score
       IN IF child.raised # "none"
          THEN [winner |-> None, board |-> child.board, score |-> score, move |-> move,
                raised |-> child.raised, depth |-> deeper(depth, child.depth + 1)]
          ELSE IF move_score > score
          THEN try_moves_no_move(calls, child.board, p, Tail(am), move_score, move_index,
                    deeper(depth, child.depth + 1))
          ELSE try_moves_no_move(calls, child.board, p, Tail(am), score, move,
                    deeper(depth, child.depth + 1))

\* The loop of lines 49-60 over the remaining moves am, with the array, the
\* best score and the best move so far, and the depth of nesting reached.
RECURSIVE try_moves(_, _, _, _, _, _, _)
try_moves(calls, board, p, am, score, move, depth) ==
  IF am = <<>>
  THEN [winner |-> None, board |-> board, score |-> score, move |-> move,
        raised |-> "none", depth |-> depth]
  ELSE LET move_index == Head(am)
           child == minimax(calls, [board EXCEPT ![move_index] = p], other(p),
                            [last_move |-> move_index])
           move_score == 0 - child.score
       IN IF child.raised # "none"
          THEN [winner |-> None, board |-> child.board, score |-> score, move |-> move,
                raised |-> child.raised, depth |-> deeper(depth, child.depth + 1)]
          ELSE IF move_score > score
          THEN try_moves(calls, child.board, p, Tail(am), move_score, move_index,
                    deeper(depth, child.depth + 1))
          ELSE try_moves(calls, child.board, p, Tail(am), score, move,
                    deeper(depth, child.depth + 1))

\* Lines 28-60 of one invocation: the winner found, and, when there is none,
\* the array, best score and best move the loop ends with.
minimax_body(calls, board, p) ==
  LET found == check_win_grid(board)
  IN IF found = p \/ found = other(p)
     THEN [winner |-> found, board |-> board, score |-> NEG_INF, move |-> NO_MOVE,
           raised |-> "none", depth |-> 0]
     ELSE try_moves(calls, board, p, am_indices(board), NEG_INF, NO_MOVE, 0)

\* The table of bodies extended from the arrays with fewer than n empty
\* cells to those with n.
add_calls(calls, n) ==
  [k \in 1 .. NumKeys |->
     IF key_empties(k) = n THEN minimax_body(calls, key_grid(k), key_player(k))
     ELSE IF key_empties(k) < n THEN calls[k]
     ELSE no_body] \o <<>>

\* The bodies for the arrays with at most 0, 1, ..., 9 empty cells.
calls_0 == add_calls(<<>>, 0)

calls_1 == add_calls(calls_0, 1)

calls_2 == add_calls(calls_1, 2)

calls_3 == add_calls(calls_2, 3)

calls_4 == add_calls(calls_3, 4)

calls_5 == add_calls(calls_4, 5)

calls_6 == add_calls(calls_5, 6)

calls_7 == add_calls(calls_6, 7)

calls_8 == add_calls(calls_7, 8)

calls_9 == add_calls(calls_8, 9)

\* The bodies of all invocations: an array has at most 9 empty cells.
minimax_calls == calls_9

\* The top-level call minimax(board, player, Board.check_win_grid).
search(board, p) == minimax(minimax_calls, board, p, <<>>)

(***************************************************************************)
(* Game: the operations of tic_tac_toe.py on the fields of one Game        *)
(* object, self = [spaces, winner, turn, button].  Each yields the fields  *)
(* as it leaves them, the path it took (`path`) and the search it made     *)
(* (`ret`, <<>> when it made none).                                        *)
(*                                                                         *)
(* button is the entry Game.buttons['rematch_button']:                     *)
(*   "absent"    no entry (no game has ended yet);                         *)
(*   "undrawn"   created by end(), rectangle_object still None, listed in  *)
(*               Button.buttons so that the next draw gives it a rectangle;*)
(*   "unlisted"  as "undrawn", but removed from Button.buttons by          *)
(*               clear_all(), so that no draw reaches it;                  *)
(*   "released", "pressed"   drawn, with that value of `pressed`.          *)
(***************************************************************************)

\* How far outside 0..2 the coordinates handed to place_marker range.
ArgSpan == 1

\* The index pairs place_marker is called with.
Positions == ((0 - ArgSpan) .. (2 + ArgSpan)) \X ((0 - ArgSpan) .. (2 + ArgSpan))

\* numpy indexing of an axis of length 3: -3..2 are valid, negative indices
\* count from the end, anything else raises IndexError.
index_ok(square_index) == \A k \in 1 .. 2 : square_index[k] \in (0 - 3) .. 2

np_index(square_index) ==
  << IF square_index[1] < 0 THEN square_index[1] + 3 ELSE square_index[1],
     IF square_index[2] < 0 THEN square_index[2] + 3 ELSE square_index[2] >>

\* end_turn that never hands the turn back to X.
end_turn_stuck(t) == PLAYER_O

\* Game.end_turn
end_turn(t) == IF t = PLAYER_X THEN PLAYER_O ELSE PLAYER_X

\* Game.end: a fresh RectangleButton replaces the dictionary entry.
end(self) == [self EXCEPT !.button = "undrawn"]

\* reset without line 86: the turn is left as it is.
reset_keeps_turn(self) == [self EXCEPT !.spaces = zeros, !.winner = None]

\* Board.reset
reset(self) == [self EXCEPT !.spaces = zeros, !.winner = None, !.turn = PLAYER_X]

\* RectangleButton.clear_all: empties the class list Button.buttons; the
\* entry of Game.buttons stays.
clear_all(b) == IF b = "undrawn" THEN "unlisted" ELSE b

\* Game.rematch
rematch(self) == [reset(self) EXCEPT !.button = clear_all(self.button)]

\* Lines 277-280 of place_marker: check_win, then end() on a finished board.
after_move(self) ==
  IF check_win(self.spaces, self.winner) # None
  THEN end([self EXCEPT !.winner = check_win(self.spaces, self.winner)])
  ELSE self

\* place_marker without the swap of the turn (line 276 left out).
place_marker_no_swap(self, square_index) ==
  IF self.winner # None
  THEN [self |-> self, path |-> "finished", ret |-> <<>>]
  ELSE IF ~index_ok(square_index)
  THEN [self |-> self, path |-> "IndexError", ret |-> <<>>]
  ELSE IF self.spaces[np_index(square_index)] # 0
  THEN [self |-> self, path |-> "occupied", ret |-> <<>>]
  ELSE [self |-> after_move([self EXCEPT !.spaces[np_index(square_index)] = self.turn]),
        path |-> "placed", ret |-> <<>>]

\* place_marker without the test of a finished game (lines 261-262 left out).
place_marker_unguarded(self, square_index) ==
  IF ~index_ok(square_index)
  THEN [self |-> self, path |-> "IndexError", ret |-> <<>>]
  ELSE IF self.spaces[np_index(square_index)] # 0
  THEN [self |-> self, path |-> "occupied", ret |-> <<>>]
  ELSE [self |-> after_move([self EXCEPT !.spaces[np_index(square_index)] = self.turn,
                                         !.turn = end_turn(self.turn)]),
        path |-> "placed", ret |-> <<>>]

\* place_marker without the test of an empty square (line 271 left out).
place_marker_overwrite(self, square_index) ==
  IF self.winner # None
  THEN [self |-> self, path |-> "finished", ret |-> <<>>]
  ELSE IF ~index_ok(square_index)
  THEN [self |-> self, path |-> "IndexError", ret |-> <<>>]
  ELSE [self |-> after_move([self EXCEPT !.spaces[np_index(square_index)] = self.turn,
                                         !.turn = end_turn(self.turn)]),
        path |-> "placed", ret |-> <<>>]

\* place_marker with the turn swapped before the write (line 276 moved above
\* line 272): the mark written is the other player's.
place_marker_swap_first(self, square_index) ==
  IF self.winner # None
  THEN [self |-> self, path |-> "finished", ret |-> <<>>]
  ELSE IF ~index_ok(square_index)
  THEN [self |-> self, path |-> "IndexError", ret |-> <<>>]
  ELSE IF self.spaces[np_index(square_index)] # 0
  THEN [self |-> self, path |-> "occupied", ret |-> <<>>]
  ELSE [self |-> after_move([self EXCEPT !.spaces[np_index(square_index)] = end_turn(self.turn),
                                         !.turn = end_turn(self.turn)]),
        path |-> "placed", ret |-> <<>>]

\* Game.place_marker
place_marker(self, square_index) ==
  IF self.winner # None
  THEN [self |-> self, path |-> "finished", ret |-> <<>>]
  ELSE IF ~index_ok(square_index)
  THEN [self |-> self, path |-> "IndexError", ret |-> <<>>]
  ELSE IF self.spaces[np_index(square_index)] # 0
  THEN [self |-> self, path |-> "occupied", ret |-> <<>>]
  ELSE [self |-> after_move([self EXCEPT !.spaces[np_index(square_index)] = self.turn,
                                         !.turn = end_turn(self.turn)]),
        path |-> "placed", ret |-> <<>>]

\* The record kept of a search: its arguments (with the turn at the time)
\* and what it returned.
search_call(self, ai, found) ==
  [board_in |-> self.spaces, player |-> ai, turn |-> self.turn,
   board |-> found.board, score |-> found.score, move |-> found.move,
   raised |-> found.raised, depth |-> found.depth]

\* Lines 289-290 once minimax has returned `found`: an exception leaves the
\* method, otherwise the move found is placed.
place_found(self, ai, found) ==
  IF found.raised # "none"
  THEN [self |-> [self EXCEPT !.spaces = found.board], path |-> found.raised,
        ret |-> <<search_call(self, ai, found)>>]
  ELSE [place_marker([self EXCEPT !.spaces = found.board], found.move)
          EXCEPT !.ret = <<search_call(self, ai, found)>>]

ai_place_marker(self, ai) ==
  IF self.winner # None
  THEN [self |-> self, path |-> "finished", ret |-> <<>>]
  ELSE place_found(self, ai, search(self.spaces, ai))

\* A mouse position, by what lies under it: the grid square `index`, the
\* PLAY AGAIN button, or neither.  The button rectangle (70 < x < 270,
\* 640 < y < 700) meets no square (357.5 < x, y < 642.5 for the top row).
Clicks ==
  {[at |-> "square", index |-> i] : i \in Idx}
    \cup {[at |-> "button", index |-> <<>>], [at |-> "nowhere", index |-> <<>>]}

\* Game.clicked_square / TicTacToeGrid.inside_square: the index of the square
\* under the mouse, <<>> for (None, None).
clicked_square(click) == IF click.at = "square" THEN click.index ELSE <<>>

\* Rectangle.inside_rectangle of the button's rectangle_object
inside_rectangle(click) == click.at = "button"

\* Game.clicked_button
clicked_button(self, click) ==
  IF self.button = "absent"
  THEN [self |-> self, path |-> "no_button", ret |-> <<>>]
  ELSE IF self.button \in {"undrawn", "unlisted"}
  THEN [self |-> self, path |-> "AttributeError", ret |-> <<>>]
  ELSE IF ~inside_rectangle(click)
  THEN [self |-> self, path |-> "missed", ret |-> <<>>]
  ELSE IF self.button = "released"
  THEN [self |-> [self EXCEPT !.button = "pressed"], path |-> "press", ret |-> <<>>]
  ELSE [self |-> rematch([self EXCEPT !.button = "released"]), path |-> "rematch",
        ret |-> <<>>]

\* What an operation did, with the name of the operation.
named(done, op) ==
  [self |-> done.self, op |-> op, path |-> done.path, ret |-> done.ret]

\* press_event without the test of line 10: the automated player is asked
\* for a move on every press of an unfinished game.
press_event_no_turn_test(self, human, ai, click) ==
  IF self.winner = None
  THEN named(ai_place_marker(self, ai), "ai_place_marker")
  ELSE named(clicked_button(self, click), "clicked_button")

\* events.press_event
press_event(self, human, ai, click) ==
  IF self.winner = None
  THEN IF self.turn = ai
       THEN named(ai_place_marker(self, ai), "ai_place_marker")
       ELSE IF self.turn = human /\ clicked_square(click) # <<>>
       THEN named(place_marker(self, clicked_square(click)), "place_marker")
       ELSE [self |-> self, op |-> "press_event", path |-> "ignored", ret |-> <<>>]
  ELSE named(clicked_button(self, click), "clicked_button")

\* events.release_event
release_event(self, click) == named(clicked_button(self, click), "clicked_button")

\* game.on_draw / create_batch: every button listed in Button.buttons gets
\* its rectangle_object.
on_draw(self) ==
  [self EXCEPT !.button = IF self.button = "undrawn" THEN "released" ELSE self.button]

\* The fields of the Game object in the current state.
game == [spaces |-> spaces, winner |-> winner, turn |-> turn, button |-> button]

\* The current state becomes the one an operation leaves.
Becomes(done) ==
  /\ spaces' = done.self.spaces
  /\ winner' = done.self.winner
  /\ turn' = done.self.turn
  /\ button' = done.self.button
  /\ last' = [op |-> done.op, path |-> done.path]
  /\ ret' = done.ret
  /\ UNCHANGED <<player, opponent>>

\* Game('X' or 'O', ...): Board.__init__ and the binding of the marks.
Init ==
  /\ spaces = zeros
  /\ winner = None
  /\ turn = PLAYER_X
  /\ player \in {PLAYER_X, PLAYER_O}
  /\ opponent = (IF player = PLAYER_X THEN PLAYER_O ELSE PLAYER_X)
  /\ button = "absent"
  /\ last = [op |-> "init", path |-> "none"]
  /\ ret = <<>>

(***************************************************************************)
(* The operations called directly, in any order and with any index pair.   *)
(***************************************************************************)
PlaceMarker(square_index) ==
  Becomes(named(place_marker(game, square_index), "place_marker"))

AiPlaceMarker == Becomes(named(ai_place_marker(game, opponent), "ai_place_marker"))

Rematch == Becomes([self |-> rematch(game), op |-> "rematch", path |-> "done", ret |-> <<>>])

Next ==
  \/ \E square_index \in Positions : PlaceMarker(square_index)
  \/ AiPlaceMarker
  \/ Rematch

Spec == Init /\ [][Next]_vars

(***************************************************************************)
(* One game played to its end: as long as the game is not finished, the    *)
(* side to move places on an empty cell through place_marker, or the       *)
(* automated player is asked for its move; there is no rematch.            *)
(***************************************************************************)
Move(square_index) ==
  /\ winner = None
  /\ spaces[square_index] = EMPTY
  /\ PlaceMarker(square_index)

AiMove ==
  /\ winner = None
  /\ AiPlaceMarker

PlayNext ==
  \/ \E square_index \in Idx : Move(square_index)
  \/ AiMove

\* What every step of PlayNext does, and what weak fairness is asked of:
\* while the game is unfinished, the mark of the turn gets placed on some
\* empty cell.
KeepsMoving ==
  /\ winner = None
  /\ \E i \in Idx : spaces[i] = EMPTY /\ spaces' = [spaces EXCEPT ![i] = turn]

PlaySpec == Init /\ [][PlayNext]_vars /\ WF_spaces(KeepsMoving)

(***************************************************************************)
(* The program of game.py: the window's mouse handlers and its redraws.    *)
(* An exception that leaves a handler ends pyglet.app.run().               *)
(***************************************************************************)
Crashed == last.path \in {"IndexError", "KeyError", "AttributeError"}

PressEvent(click) ==
  /\ ~Crashed
  /\ Becomes(press_event(game, player, opponent, click))

ReleaseEvent(click) ==
  /\ ~Crashed
  /\ Becomes(release_event(game, click))

Draw ==
  /\ ~Crashed
  /\ button = "undrawn"
  /\ button' = on_draw(game).button
  /\ UNCHANGED <<spaces, winner, turn, player, opponent, last, ret>>

EventNext ==
  \/ \E click \in Clicks : PressEvent(click)
  \/ \E click \in Clicks : ReleaseEvent(click)
  \/ Draw

EventSpec == Init /\ [][EventNext]_vars

(***************************************************************************)
(* Board.check_win_grid and Board.check_win as functions of the array: any *)
(* of the 3^9 arrays, held by a board whose winner is still None.          *)
(* check_win is called once, then once more on the same array.             *)
(***************************************************************************)
GridInit ==
  /\ spaces \in Grids
  /\ winner = None
  /\ turn = PLAYER_X
  /\ player = PLAYER_X
  /\ opponent = PLAYER_O
  /\ button = "absent"
  /\ last = [op |-> "init", path |-> "none"]
  /\ ret = <<>>

CheckWinGrid ==
  /\ last.op = "init"
  /\ ret' = <<check_win_grid(spaces)>>
  /\ last' = [op |-> "check_win_grid", path |-> "returned"]
  /\ UNCHANGED <<spaces, winner, turn, player, opponent, button>>

CheckWin ==
  /\ last.op = "init" \/ (last.op = "check_win" /\ last.path = "first")
  /\ winner' = check_win(spaces, winner)
  /\ last' = [op |-> "check_win", path |-> IF last.op = "init" THEN "first" ELSE "second"]
  /\ UNCHANGED <<spaces, turn, player, opponent, button, ret>>

GridNext == CheckWinGrid \/ CheckWin

GridSpec == GridInit /\ [][GridNext]_vars

(***************************************************************************)
(* The Board class on its own: cells written through Board.__setitem__     *)
(* (board[key] = value), with any value on any cell, and Board.reset.      *)
(***************************************************************************)

\* The values a cell is given.
Cells == {EMPTY, PLAYER_X, PLAYER_O}

\* __setitem__ without the call of check_win (line 43 left out).
setitem_no_check(self, key, value) == [self EXCEPT !.spaces[key] = value]

\* Board.__setitem__
setitem(self, key, value) ==
  [self EXCEPT !.spaces[key] = value,
               !.winner = check_win([self.spaces EXCEPT ![key] = value], self.winner)]

BoardInit ==
  /\ spaces = zeros
  /\ winner = None
  /\ turn = PLAYER_X
  /\ player = PLAYER_X
  /\ opponent = PLAYER_O
  /\ button = "absent"
  /\ last = [op |-> "init", path |-> "none"]
  /\ ret = <<>>

SetItem(key, value) ==
  Becomes([self |-> setitem(game, key, value), op |-> "__setitem__", path |-> "done",
           ret |-> <<>>])

Reset == Becomes([self |-> reset(game), op |-> "reset", path |-> "done", ret |-> <<>>])

BoardNext ==
  \/ \E key \in Idx, value \in Cells : SetItem(key, value)
  \/ Reset

BoardSpec == BoardInit /\ [][BoardNext]_vars

(***************************************************************************)
(* The notions the properties are stated in.                               *)
(***************************************************************************)

\* The 8 lines of the grid: 3 rows, 3 columns, 2 diagonals.
Lines ==
  {{<<r, 0>>, <<r, 1>>, <<r, 2>>} : r \in 0 .. 2}
    \cup {{<<0, c>>, <<1, c>>, <<2, c>>} : c \in 0 .. 2}
    \cup {{<<0, 0>>, <<1, 1>>, <<2, 2>>}, {<<0, 2>>, <<1, 1>>, <<2, 0>>}}

HasLine(g, s) == \E line \in Lines : \A i \in line : g[i] = s

Full(g) == \A i \in Idx : g[i] # EMPTY

Over(g) == HasLine(g, PLAYER_X) \/ HasLine(g, PLAYER_O) \/ Full(g)

EmptyCells(g) == {i \in Idx : g[i] = EMPTY}

Put(g, i, s) == [g EXCEPT ![i] = s]

\* Who can force what, for the grid and the side to move of key k, given the
\* answers `known` for all grids with fewer empty cells:
\*   wins   the side to move can force a win for itself,
\*   loses  the other side can force a win, whatever the side to move plays.
ForcedAt(known, k) ==
  LET g == key_grid(k)
      p == key_player(k)
  IN IF Over(g)
     THEN [wins |-> HasLine(g, p) /\ ~HasLine(g, other(p)),
           loses |-> HasLine(g, other(p)) /\ ~HasLine(g, p)]
     ELSE [wins |-> \E i \in EmptyCells(g) : known[call_key(Put(g, i, p), other(p))].loses,
           loses |-> \A i \in EmptyCells(g) : known[call_key(Put(g, i, p), other(p))].wins]

ForcedAdd(known, n) ==
  [k \in 1 .. NumKeys |->
     IF key_empties(k) = n THEN ForcedAt(known, k)
     ELSE IF key_empties(k) < n THEN known[k]
     ELSE <<>>] \o <<>>

Forced_0 == ForcedAdd(<<>>, 0)

Forced_1 == ForcedAdd(Forced_0, 1)

Forced_2 == ForcedAdd(Forced_1, 2)

Forced_3 == ForcedAdd(Forced_2, 3)

Forced_4 == ForcedAdd(Forced_3, 4)

Forced_5 == ForcedAdd(Forced_4, 5)

Forced_6 == ForcedAdd(Forced_5, 6)

Forced_7 == ForcedAdd(Forced_6, 7)

Forced_8 == ForcedAdd(Forced_7, 8)

Forced_9 == ForcedAdd(Forced_8, 9)

\* Side p, to move on grid g, can force a win.
CanForceWin(g, p) == Forced_9[call_key(g, p)].wins

\* The search made by the operation run last.
Searched == ret # <<>> /\ last.op = "ai_place_marker"

(***************************************************************************)
(* Properties                                                              *)
(***************************************************************************)

\* C1: with the human placing only on the human's turn and the automated
\* player moving through ai_place_marker on its own, the outcome is never a
\* win of the human's mark, whichever mark the human has.
C1_AutomatedPlayerNeverLoses == winner # player

\* The automated player has just completed a line of its own.
C1_Witness ==
  /\ last.op = "ai_place_marker"
  /\ last.path = "placed"
  /\ winner = opponent
  /\ HasLine(spaces, opponent)

\* C2: for a grid reached by alternating play, not yet decided, and the side
\* whose turn it is: when some empty cell leaves the other side unable to
\* force a win, the cell the search returns is such a cell.
C2_SearchOptimality ==
  (Searched /\ ret[1].turn = ret[1].player) =>
     /\ ret[1].raised = "none"
     /\ ret[1].move \in EmptyCells(ret[1].board_in)
     /\ (\E i \in EmptyCells(ret[1].board_in) :
            ~CanForceWin(Put(ret[1].board_in, i, ret[1].player), other(ret[1].player)))
          => ~CanForceWin(Put(ret[1].board_in, ret[1].move, ret[1].player),
                          other(ret[1].player))

\* A search on the mover's turn where some cell would let the other side
\* force a win and the cell returned does not.
C2_Witness ==
  /\ Searched
  /\ ret[1].turn = ret[1].player
  /\ \E i \in EmptyCells(ret[1].board_in) :
        CanForceWin(Put(ret[1].board_in, i, ret[1].player), other(ret[1].player))
  /\ ~CanForceWin(Put(ret[1].board_in, ret[1].move, ret[1].player), other(ret[1].player))

\* C3: when the top-level search returns, the array it was given holds in
\* every cell the value it held when the search was called.
C3_SearchRestoresGrid ==
  Searched => ret[1].raised = "none" /\ ret[1].board = ret[1].board_in

\* A search from the empty grid, whose tree has won, lost and drawn leaves.
C3_Witness ==
  /\ Searched
  /\ ret[1].board_in = zeros
  /\ ret[1].board = zeros
  /\ ret[1].move \in Idx

\* C4: after any sequence of place_marker, ai_place_marker and rematch calls
\* the number of X cells minus the number of O cells is 0 or 1.
C4_MarkCount ==
  count_nonzero(spaces, PLAYER_X) - count_nonzero(spaces, PLAYER_O) \in {0, 1}

\* Both differences occur after moves of both kinds: here an automated move
\* has just evened the counts at three marks each.
C4_Witness ==
  /\ last.op = "ai_place_marker"
  /\ last.path = "placed"
  /\ count_nonzero(spaces, PLAYER_X) = 3
  /\ count_nonzero(spaces, PLAYER_O) = 3

\* C5: on a finished game place_marker (with any index) and ai_place_marker
\* change neither the grid, nor the turn, nor the winner, and the winner
\* becomes None again only by rematch.
C5_FinishedIsAbsorbing ==
  [][winner # None =>
       /\ last'.op \in {"place_marker", "ai_place_marker"}
            => spaces' = spaces /\ turn' = turn /\ winner' = winner
       /\ winner' = None => last'.op = "rematch"]_vars

\* place_marker has been called on a finished game.
C5_Witness ==
  /\ winner # None
  /\ last.op = "place_marker"
  /\ last.path = "finished"

\* C6: on each of the 3^9 grids check_win_grid returns a mark that fills one
\* of the 8 lines when there is such a mark, else STALE when no cell is
\* empty, else None.
C6_CheckWinGridMatches ==
  last.op = "check_win_grid" =>
     IF HasLine(spaces, PLAYER_X) \/ HasLine(spaces, PLAYER_O)
     THEN ret[1] \in {s \in {PLAYER_X, PLAYER_O} : HasLine(spaces, s)}
     ELSE IF Full(spaces) THEN ret[1] = STALE
     ELSE ret[1] = None

\* A full grid with a completed line: the result is the win, not the draw.
C6_Witness ==
  /\ last.op = "check_win_grid"
  /\ Full(spaces)
  /\ HasLine(spaces, PLAYER_O)
  /\ ~HasLine(spaces, PLAYER_X)
  /\ ret[1] = PLAYER_O

\* C7: the stored winner is what check_win_grid returns for the current
\* grid, so the game is finished exactly when a line is complete or the grid
\* is full.
C7_WinnerInSync ==
  /\ winner = check_win_grid(spaces)
  /\ winner # None <=> Over(spaces)

\* A move has just filled the grid without completing a line.
C7_Witness ==
  /\ last.path = "placed"
  /\ Full(spaces)
  /\ ~HasLine(spaces, PLAYER_X)
  /\ ~HasLine(spaces, PLAYER_O)
  /\ winner = STALE

\* The negated score of the nested call for cell i.
ChildScore(g, p, i) ==
  0 - minimax(minimax_calls, Put(g, i, p), other(p), [last_move |-> i]).score

\* Cell i comes before cell j in row-major order.
ScannedBefore(i, j) == 3 * i[1] + i[2] < 3 * j[1] + j[2]

\* C8: the search returns the maximum of the negated scores of the nested
\* calls and, of the empty cells that reach it, the first in row-major order.
C8_RowMajorTieBreak ==
  Searched =>
     /\ ret[1].raised = "none"
     /\ ret[1].move \in EmptyCells(ret[1].board_in)
     /\ ret[1].score = ChildScore(ret[1].board_in, ret[1].player, ret[1].move)
     /\ \A i \in EmptyCells(ret[1].board_in) :
           /\ ChildScore(ret[1].board_in, ret[1].player, i) <= ret[1].score
           /\ ChildScore(ret[1].board_in, ret[1].player, i) = ret[1].score
                => ~ScannedBefore(i, ret[1].move)

\* A search with a tie: a later cell reaches the returned score too.
C8_Witness ==
  /\ Searched
  /\ \E i \in EmptyCells(ret[1].board_in) :
        /\ ScannedBefore(ret[1].move, i)
        /\ ChildScore(ret[1].board_in, ret[1].player, i) = ret[1].score

\* C9: in every state of an unfinished game, place_marker called on any
\* occupied cell leaves the grid, the turn and the winner (and the button)
\* as they are.
C9_OccupiedIsNoOp ==
  winner = None =>
     \A square_index \in Positions :
        (index_ok(square_index) /\ spaces[np_index(square_index)] # EMPTY)
          => place_marker(game, square_index).self = game

\* place_marker has been called on an occupied cell of an unfinished game.
C9_Witness ==
  /\ winner = None
  /\ last.op = "place_marker"
  /\ last.path = "occupied"

\* The grid and the turn after the mark of the turn is put on the empty
\* cell i.
Placed(i) ==
  /\ spaces[i] = EMPTY
  /\ spaces' = Put(spaces, i, turn)
  /\ turn' = other(turn)

\* C10: a call of place_marker on an empty cell of an unfinished game puts
\* the mark of the turn there and hands the turn to the other mark; the grid
\* and the turn change in no other way, except that rematch empties the grid
\* and gives the turn to X; so it is X's turn exactly when there are as many
\* X as O, and O's turn exactly when there is one X more.
C10_TurnAlternation ==
  /\ [](/\ turn = PLAYER_X <=>
             count_nonzero(spaces, PLAYER_X) = count_nonzero(spaces, PLAYER_O)
        /\ turn = PLAYER_O <=>
             count_nonzero(spaces, PLAYER_X) = count_nonzero(spaces, PLAYER_O) + 1
        /\ winner = None =>
             \A i \in EmptyCells(spaces) :
                /\ place_marker(game, i).self.spaces = Put(spaces, i, turn)
                /\ place_marker(game, i).self.turn = other(turn))
  /\ [][(spaces' # spaces \/ turn' # turn) =>
           \/ last'.op = "rematch" /\ turn' = PLAYER_X /\ spaces' = zeros
           \/ \E i \in Idx : Placed(i)]_vars

\* X, O and X again have placed, and it is O's turn.
C10_Witness ==
  /\ last.path = "placed"
  /\ turn = PLAYER_O
  /\ count_nonzero(spaces, PLAYER_X) = 2
  /\ count_nonzero(spaces, PLAYER_O) = 1

\* C11: rematch (and with it Board.reset), called in any state, finished or
\* not, leaves all 9 cells empty, the turn with X and the winner None, and
\* leaves both marks bound as they were; after it place_marker places on
\* every cell again.
C11_ResetRestoresInitial ==
  /\ [](/\ rematch(game).spaces = zeros
        /\ rematch(game).turn = PLAYER_X
        /\ rematch(game).winner = None
        /\ \A i \in Idx : place_marker(rematch(game), i).path = "placed"
        /\ last.op = "rematch" => spaces = zeros /\ turn = PLAYER_X /\ winner = None)
  /\ [][last'.op = "rematch" => player' = player /\ opponent' = opponent]_vars

\* rematch has just been called; the button shows that a game had ended
\* before (end() made it, clear_all() took it off the list).
C11_Witness ==
  /\ last.op = "rematch"
  /\ button = "unlisted"
  /\ spaces = zeros
  /\ winner = None

\* C12: place_marker called with an index pair outside 0..2 x 0..2 (negative
\* coordinates included) changes neither the grid, nor the turn, nor the
\* winner, and raises nothing.
C12_OutOfBoundsRejected ==
  \A square_index \in Positions \ Idx :
     /\ place_marker(game, square_index).self.spaces = spaces
     /\ place_marker(game, square_index).self.turn = turn
     /\ place_marker(game, square_index).self.winner = winner
     /\ place_marker(game, square_index).path # "IndexError"

\* C13: with the human bound to X, once the human has opened on the centre
\* and the automated player has answered, the O is on the corner (0,0) and
\* the game is not finished.
C13_OpeningScenario ==
  (/\ player = PLAYER_X
   /\ spaces[<<1, 1>>] = PLAYER_X
   /\ count_nonzero(spaces, PLAYER_X) = 1
   /\ count_nonzero(spaces, PLAYER_O) = 1)
    => /\ spaces[<<0, 0>>] = PLAYER_O
       /\ winner = None

\* The automated player has just answered the opening on the centre.
C13_Witness ==
  /\ player = PLAYER_X
  /\ last.op = "ai_place_marker"
  /\ last.path = "placed"
  /\ ret[1].board_in = Put(zeros, <<1, 1>>, PLAYER_X)
  /\ ret[1].move = <<0, 0>>
  /\ spaces = Put(Put(zeros, <<1, 1>>, PLAYER_X), <<0, 0>>, PLAYER_O)
  /\ winner = None

\* C14: on each of the 3^9 grids, check_win run on a board that holds the
\* grid with winner None stores what check_win_grid returns for the grid,
\* also when lines of both marks are complete.
C14_ChecksAgree ==
  (last.op = "check_win" /\ last.path = "first") => winner = check_win_grid(spaces)

\* check_win has run on a grid with a complete line of each mark, the line
\* of O listed first.
C14_Witness ==
  /\ last.op = "check_win"
  /\ last.path = "first"
  /\ HasLine(spaces, PLAYER_X)
  /\ HasLine(spaces, PLAYER_O)
  /\ winner = PLAYER_O

\* C15: check_win called a second time on the same grid leaves the winner as
\* the first call left it, be it None, STALE or a mark.
C15_CheckWinIdempotent ==
  [][(last.op = "check_win" /\ last'.op = "check_win") => winner' = winner]_vars

\* The second call has run on a grid that the first call left undecided.
C15_Witness ==
  /\ last.op = "check_win"
  /\ last.path = "second"
  /\ winner = None
  /\ ~Over(spaces)

\* C16: when a placement by the mark whose turn it is finishes the game, the
\* winner is that mark if the new grid has a complete line of it and STALE
\* otherwise, and the other mark has no complete line; no reachable grid
\* has complete lines of both marks.
C16_WinnerJustMoved ==
  /\ [](~(HasLine(spaces, PLAYER_X) /\ HasLine(spaces, PLAYER_O)))
  /\ [][(winner = None /\ winner' # None) =>
           /\ \E i \in Idx : spaces[i] = EMPTY /\ spaces' = Put(spaces, i, spaces'[i])
           /\ winner' = (IF HasLine(spaces', turn) THEN turn ELSE STALE)
           /\ winner' # other(turn)
           /\ ~HasLine(spaces', other(turn))]_vars

\* O has just completed a line with the last placement of a grid that
\* still has an empty cell.
C16_Witness ==
  /\ last.path = "placed"
  /\ winner = PLAYER_O
  /\ turn = PLAYER_X
  /\ HasLine(spaces, PLAYER_O)
  /\ ~Full(spaces)

\* The value of grid g for side p to move, under best play of both sides.
GameValue(g, p) ==
  IF Forced_9[call_key(g, p)].wins THEN 1
  ELSE IF Forced_9[call_key(g, p)].loses THEN 0 - 1
  ELSE 0

\* C17: the score of a search is the value of the grid for the player
\* searched for, and the score each nested call returns is the value of its
\* grid for its player: 1 when that player has won or can force a win, -1
\* when the other has or can, 0 otherwise, a full grid without a line
\* included.  (A grid met deeper in the recursion is the grid of a search
\* of its own.)
C17_ScoreIsGameValue ==
  Searched =>
     /\ ret[1].score = GameValue(ret[1].board_in, ret[1].player)
     /\ \A i \in EmptyCells(ret[1].board_in) :
           0 - ChildScore(ret[1].board_in, ret[1].player, i)
             = GameValue(Put(ret[1].board_in, i, ret[1].player), other(ret[1].player))

\* A search on the mover's turn that is lost under best play: a placement
\* that completes no line leaves the other side a forced win.
C17_Witness ==
  /\ Searched
  /\ ret[1].turn = ret[1].player
  /\ ret[1].score = 0 - 1
  /\ \E i \in EmptyCells(ret[1].board_in) :
        /\ ~HasLine(Put(ret[1].board_in, i, ret[1].player), ret[1].player)
        /\ ChildScore(ret[1].board_in, ret[1].player, i) = 0 - 1

\* C18: whenever a mouse press makes ai_place_marker call the search, the
\* grid passed has no complete line and an empty cell, the player passed is
\* the automated player's mark and it is that mark's turn, and the mark
\* then placed on the cell found is the automated player's.
C18_SearchPrecondition ==
  Searched =>
     /\ check_win_grid(ret[1].board_in) = None
     /\ EmptyCells(ret[1].board_in) # {}
     /\ ret[1].player = opponent
     /\ ret[1].turn = opponent
     /\ ret[1].raised = "none"
     /\ last.path = "placed"
     /\ spaces = Put(ret[1].board_in, ret[1].move, opponent)

\* The automated player, bound to X, has searched the empty grid and opened.
C18_Witness ==
  /\ Searched
  /\ opponent = PLAYER_X
  /\ ret[1].board_in = zeros
  /\ ret[1].turn = PLAYER_X
  /\ spaces = Put(zeros, ret[1].move, PLAYER_X)

\* C20: board[key] = value writes the cell whatever the winner is; on a
\* board whose winner is None the winner then is what check_win_grid returns
\* for the grid written, on a board with a winner the winner stays, and
\* only reset changes a winner once it is set.
C20_SetItemRechecks ==
  /\ [](\A key \in Idx, value \in Cells :
          /\ setitem(game, key, value).spaces = Put(spaces, key, value)
          /\ setitem(game, key, value).winner
               = (IF winner = None THEN check_win_grid(Put(spaces, key, value)) ELSE winner))
  /\ [][/\ last'.op = "__setitem__" =>
              winner' = (IF winner = None THEN check_win_grid(spaces') ELSE winner)
        /\ (winner # None /\ winner' # winner) => last'.op = "reset"]_vars

\* A cell has been written on a board that X had won: the line of X is gone
\* and the winner is still X.
C20_Witness ==
  /\ last.op = "__setitem__"
  /\ winner = PLAYER_X
  /\ ~HasLine(spaces, PLAYER_X)
  /\ check_win_grid(spaces) = None

\* C19: a search on a grid reached by alternating play and not yet decided,
\* for the side whose turn it is, returns (nothing is raised), and its
\* invocations never nest deeper than the grid has empty cells, 9 at most.
C19_SearchTerminates ==
  (Searched /\ ret[1].turn = ret[1].player) =>
     /\ ret[1].raised = "none"
     /\ ret[1].move \in EmptyCells(ret[1].board_in)
     /\ ret[1].depth <= Cardinality(EmptyCells(ret[1].board_in))
     /\ ret[1].depth <= 9

\* The search of the empty grid has returned after nesting 9 deep.
C19_Witness ==
  /\ Searched
  /\ ret[1].turn = ret[1].player
  /\ ret[1].board_in = zeros
  /\ ret[1].raised = "none"
  /\ ret[1].depth = 9

\* The cells on which two grids differ.
Changed(g, h) == {i \in Idx : g[i] # h[i]}

\* C21: a step of place_marker or ai_place_marker, the search of the latter
\* included, leaves every cell that holds a mark as it is, and when it
\* changes the grid it changes one cell, from empty to a mark; only rematch
\* takes marks off.
C21_MarksPermanent ==
  [][last'.op # "rematch" =>
       /\ \A i \in Idx : spaces[i] # EMPTY => spaces'[i] = spaces[i]
       /\ spaces' # spaces =>
            /\ Cardinality(Changed(spaces, spaces')) = 1
            /\ last'.path = "placed"
            /\ \A i \in Changed(spaces, spaces') :
                  spaces[i] = EMPTY /\ spaces'[i] \in {PLAYER_X, PLAYER_O}]_vars

\* The automated player has searched a grid with four marks on it and placed
\* a fifth; the four are where they were.
C21_Witness ==
  /\ Searched
  /\ last.path = "placed"
  /\ Cardinality(EmptyCells(ret[1].board_in)) = 5
  /\ Cardinality(EmptyCells(spaces)) = 4
  /\ \A i \in Idx : ret[1].board_in[i] # EMPTY => spaces[i] = ret[1].board_in[i]

\* The number of marks on a grid.
Marks(g) == 9 - Cardinality(EmptyCells(g))

\* C22: in a game without rematch in which the side to move keeps placing on
\* an empty cell, by place_marker or by ai_place_marker, every placement
\* adds one mark, so there are at most 9; the game is finished when 9 marks
\* are on the grid; and the game does get finished.
C22_EveryGameEnds ==
  /\ <>(winner # None)
  /\ [](Full(spaces) => winner # None)
  /\ [][last'.path = "placed" =>
           Marks(spaces') = Marks(spaces) + 1 /\ Marks(spaces') <= 9]_vars

\* The ninth placement has filled the grid without a line: the game ends
\* as a draw.
C22_Witness ==
  /\ last.path = "placed"
  /\ Marks(spaces) = 9
  /\ winner = STALE

\* C23: no mouse press or release runs rematch while the game is
\* unfinished: from a state whose winner is None no event takes the rematch
\* path, empties a grid that holds marks, or hands the turn back to X
\* without a placement.
C23_RematchOnlyWhenFinished ==
  [][winner = None =>
       /\ last'.path # "rematch"
       /\ ~(spaces # zeros /\ spaces' = zeros)
       /\ (turn = PLAYER_O /\ turn' = PLAYER_X) => last'.path = "placed"]_vars
====
